---- MODULE Spec2Model ----
(***************************************************************************)
(* Model of the SoundSense noise meter: AudioProcessor (the level meter),  *)
(* PremiumFeatures (extended data collection) and NoiseDetector (the       *)
(* session controller), together with the browser environment they run in  *)
(* (clock, microphone streams, analyser frames, animation-frame and         *)
(* interval callbacks).                                                     *)
(*                                                                         *)
(* Numbers: decibel values are whole dB; the pre-clamp value of a silent    *)
(* frame is the distinct value NegInf.  Times are milliseconds.             *)
(***************************************************************************)
EXTENDS Integers, Sequences, FiniteSets, TLC

\* ------------------------------------------------------------------ bounds
MaxNow == 360000
ShortHorizon == 60000
FineWindow == 20
MaxStreams == 2
MaxPending == 2
MaxLoops == 2
MaxIntervals == 1
MaxHistory == 2
MaxExtended == 1
FrameLen == 1
MaxOffset == 14
MaxReadings == 3

\* ------------------------------------------------------- program constants
ClampMin == 20
ClampMax == 140
SplAdjust == 94
MidPoint == 128
FramesPerSecond == 60
FreeDuration == 30
ExtendedDuration == 300
DefaultReference == 94

\* ----------------------------------------------------- environment inputs
NegInf == -100000
NoStream == 0
SampleBytes == {128, 228}
\* the level depends on the sum of the squares only: one ordering per frame
Frames ==
    {f \in [1..FrameLen -> SampleBytes] :
        \A i \in 1..(FrameLen - 1) : f[i] <= f[i + 1]}
SessionFrames == {[i \in 1..FrameLen |-> 228]}
SilentFrame == [i \in 1..FrameLen |-> MidPoint]
FineSteps == {10, 20}
CoarseSteps == {30000, 300000}
ReferenceLevels == {30, 94}
ManualOffsets == {-80, 10}
StoredOffsets == {10}

Max(a, b) == IF a >= b THEN a ELSE b
Min(a, b) == IF a <= b THEN a ELSE b

\* --------------------------------------------------------------- variables
VARIABLES
    now,            \* performance.now() / Date.now(), ms
    ap,             \* the AudioProcessor instance
    storage,        \* localStorage['noise-detector-calibration']
    liveStreams,    \* media streams whose tracks have not been stopped
    pending,        \* startMeasurement calls awaiting getUserMedia
    det,            \* the NoiseDetector instance
    history,        \* MeasurementHistory.measurements, most recent first
    historyStore,   \* localStorage['soundsense-measurements']
    gauge,          \* the Gauge instance
    gaugeFrames,    \* animation-frame requests of the gauge not yet run
    rafLoops,       \* scheduled measurementLoop animation-frame callbacks
    pf,             \* the PremiumFeatures instance
    intervals,      \* live setInterval timers created by PremiumFeatures
    premiumUnlocked,\* monetization.isPremiumUnlocked()
    mon,            \* the rest of the Monetization instance, its timers
                    \* and localStorage['soundsense-monetization-data']
    call            \* the most recent operation and what it returned

vars == <<now, ap, storage, liveStreams, pending, det,
          history, historyStore, gauge, gaugeFrames, rafLoops, pf,
          intervals, premiumUnlocked, mon, call>>

\* ------------------------------------------------- AudioProcessor: numerics

\* sum of squared amplitudes, in units of (1/128)^2
RECURSIVE SumSquares(_, _)
SumSquares(timeData, i) ==
    IF i = 0 THEN 0
    ELSE (timeData[i] - MidPoint) * (timeData[i] - MidPoint)
         + SumSquares(timeData, i - 1)

\* calculateRMS: the mean square of the frame (the square root is taken
\* inside the logarithm: 20*log10(sqrt(m)) = 10*log10(m)); units (1/128)^2
calculateRMS(timeData) == SumSquares(timeData, Len(timeData)) \div Len(timeData)

\* 10*log10(n) in whole dB for n >= 1
RECURSIVE TenLog10(_)
TenLog10(n) ==
    IF n >= 10 THEN 10 + TenLog10(n \div 10)
    ELSE CASE n = 1 -> 0 [] n = 2 -> 3 [] n = 3 -> 5 [] n = 4 -> 6
           [] n = 5 -> 7 [] n = 6 -> 8 [] n = 7 -> 8 [] n = 8 -> 9
           [] OTHER -> 10

\* convertRMSToDecibels without the case for silence: the logarithm of 0
\* taken as 0
convertRMSToDecibelsNoSilence(meanSquare) ==
    IF meanSquare <= 0 THEN SplAdjust
    ELSE TenLog10(meanSquare) - 42 + SplAdjust

\* convertRMSToDecibels: -Infinity for rms <= 0, else 20*log10(rms) + 94;
\* rms = sqrt(meanSquare)/128, and 10*log10(128^2) = 42 in whole dB
convertRMSToDecibels(meanSquare) ==
    IF meanSquare <= 0 THEN NegInf
    ELSE TenLog10(meanSquare) - 42 + SplAdjust

\* db += calibrationOffset  (-Infinity + finite = -Infinity)
AddOffset(db, offset) == IF db = NegInf THEN NegInf ELSE db + offset

\* Math.max(20, Math.min(140, db))
Clamp(db) == IF db = NegInf THEN ClampMin ELSE Max(ClampMin, Min(ClampMax, db))

\* the interval taken in seconds instead of milliseconds
WithinUpdateIntervalSeconds(t, last) == (t - last) * FramesPerSecond * 1000 < 1000

\* the gate held closed for two frames instead of one
WithinUpdateIntervalDoubled(t, last) == (t - last) * FramesPerSecond < 2000

\* now - lastUpdateTime < updateInterval, with updateInterval = 1000/60
WithinUpdateInterval(t, last) == (t - last) * FramesPerSecond < 1000

\* ------------------------------------------- AudioProcessor: state changes
NewAudioProcessor ==
    [isInitialized |-> FALSE, isActive |-> FALSE, isMeasuring |-> FALSE,
     audioContext |-> FALSE, analyser |-> FALSE, stream |-> NoStream,
     calibrationOffset |-> 0, referenceLevel |-> DefaultReference,
     lastUpdateTime |-> 0, currentDecibels |-> 0]

stopMeasuring(a) == [a EXCEPT !.isMeasuring = FALSE]

\* cleanup that also forgets the calibration
cleanupResetsCalibration(a) ==
    [a EXCEPT !.isMeasuring = FALSE, !.isActive = FALSE, !.analyser = FALSE,
              !.stream = NoStream, !.audioContext = FALSE,
              !.isInitialized = FALSE, !.currentDecibels = 0,
              !.calibrationOffset = 0]

\* cleanup: disconnects the nodes, stops the tracks of this.stream, closes
\* the context and resets the state; lastUpdateTime is not reset
cleanup(a) ==
    [a EXCEPT !.isMeasuring = FALSE, !.isActive = FALSE, !.analyser = FALSE,
              !.stream = NoStream, !.audioContext = FALSE,
              !.isInitialized = FALSE, !.currentDecibels = 0]

\* the streams still live after cleanup stopped the tracks of a.stream
TracksAfterCleanup(a, live) == live \ {a.stream}

\* stop that forgets the cleanup
stopWithoutCleanup(a) == stopMeasuring(a)

\* stop: stopMeasuring then cleanup
stop(a) == cleanup(stopMeasuring(a))

\* startMeasuring on an initialized processor
startMeasuring(a) ==
    LET a1 == IF a.isMeasuring THEN stopMeasuring(a) ELSE a
    IN  [a1 EXCEPT !.isMeasuring = TRUE, !.isActive = TRUE]

\* loadCalibration: parseFloat(stored) || 0 when a value is stored
loadCalibration(a, st) ==
    IF st.has THEN [a EXCEPT !.calibrationOffset = st.val] ELSE a

\* localStorage.setItem: the value is stored, or the call throws (storage
\* full or not available) and what is stored stays as it was
setItem(stored, value, fails) ==
    [stored |-> IF fails THEN stored ELSE value, threw |-> fails]

\* saveCalibration without its try/catch
saveCalibrationUncaught(a, st, fails) ==
    setItem(st, [has |-> TRUE, val |-> a.calibrationOffset], fails)

\* saveCalibration: localStorage.setItem(key, offset.toString()) inside
\* try/catch; an exception is logged and not rethrown
saveCalibration(a, st, fails) ==
    [saveCalibrationUncaught(a, st, fails) EXCEPT !.threw = FALSE]

\* getCurrentDecibels whose catch block stops the measurement
getCurrentDecibelsStopsOnError(a, t, frame, throws) ==
    IF ~a.isInitialized \/ ~a.isMeasuring \/ ~a.analyser
    THEN [ap |-> a, ret |-> 0, sampled |-> FALSE]
    ELSE IF WithinUpdateInterval(t, a.lastUpdateTime)
    THEN [ap |-> a, ret |-> a.currentDecibels, sampled |-> FALSE]
    ELSE IF throws
    THEN [ap |-> stopMeasuring(a), ret |-> a.currentDecibels, sampled |-> TRUE]
    ELSE LET rms == calculateRMS(frame)
             db  == Clamp(AddOffset(convertRMSToDecibels(rms),
                                    a.calibrationOffset))
         IN  [ap |-> [a EXCEPT !.currentDecibels = db, !.lastUpdateTime = t],
              ret |-> db, sampled |-> TRUE]

\* getCurrentDecibels: returns the processor after the call, the value
\* returned and whether the analyser was sampled
getCurrentDecibels(a, t, frame, throws) ==
    IF ~a.isInitialized \/ ~a.isMeasuring \/ ~a.analyser
    THEN [ap |-> a, ret |-> 0, sampled |-> FALSE]
    ELSE IF WithinUpdateInterval(t, a.lastUpdateTime)
    THEN [ap |-> a, ret |-> a.currentDecibels, sampled |-> FALSE]
    ELSE IF throws
    THEN [ap |-> a, ret |-> a.currentDecibels, sampled |-> TRUE]
    ELSE LET rms == calculateRMS(frame)
             db  == Clamp(AddOffset(convertRMSToDecibels(rms),
                                    a.calibrationOffset))
         IN  [ap |-> [a EXCEPT !.currentDecibels = db, !.lastUpdateTime = t],
              ret |-> db, sampled |-> TRUE]

\* calibrate on a processor that is initialized and measuring
calibrate(a, t, frame, throws, referenceLevel) ==
    LET originalOffset == a.calibrationOffset
        r == getCurrentDecibels([a EXCEPT !.calibrationOffset = 0],
                                t, frame, throws)
        newOffset == referenceLevel - r.ret
    IN  [ap |-> [r.ap EXCEPT !.calibrationOffset = originalOffset + newOffset,
                             !.referenceLevel = referenceLevel],
         ret |-> originalOffset + newOffset,
         reading |-> r.ret, sampled |-> r.sampled]

\* Calibrator.calculateCalibrationOffset
calculateCalibrationOffset(measuredDb, actualDb) == actualDb - measuredDb

\* initialize up to the getUserMedia request: the audio context is created
initializeBegin(a) == [a EXCEPT !.audioContext = TRUE]

\* initialize whose setupAudioNodes works without an audio context
initializeResolvedWithoutContext(a, s, st) ==
    [ap |-> [loadCalibration([a EXCEPT !.stream = s, !.analyser = TRUE], st)
               EXCEPT !.isInitialized = TRUE],
     ok |-> TRUE, stopped |-> {}]

\* initialize after getUserMedia resolved with stream s: setupAudioNodes
\* throws when the context is gone, and the catch block cleans up
initializeResolved(a, s, st) ==
    LET a1 == [a EXCEPT !.stream = s]
    IN  IF ~a1.audioContext
        THEN [ap |-> cleanup(a1), ok |-> FALSE, stopped |-> {s}]
        ELSE [ap |-> [loadCalibration([a1 EXCEPT !.analyser = TRUE], st)
                        EXCEPT !.isInitialized = TRUE],
              ok |-> TRUE, stopped |-> {}]


\* ------------------------------------------------------- PremiumFeatures
NewPremiumFeatures ==
    [isActive |-> FALSE, sessionStartTime |-> 0, extendedMeasurements |-> <<>>,
     premiumTimer |-> FALSE]

\* activate that keeps the data of the session before
activateKeepsData(p, t) ==
    [p EXCEPT !.isActive = TRUE, !.sessionStartTime = t]

activate(p, t) ==
    [p EXCEPT !.isActive = TRUE, !.sessionStartTime = t,
              !.extendedMeasurements = <<>>]

getMeasurementDuration(p) == IF p.isActive THEN ExtendedDuration ELSE FreeDuration

\* startExtendedMeasurement with an audio processor present: the data are
\* cleared and a new interval timer replaces the handle in premiumTimer
\* (an interval already held there is not cleared); returns the new
\* PremiumFeatures and the number of live interval timers
startExtendedMeasurement(p, n) ==
    IF ~p.isActive THEN [pf |-> p, intervals |-> n]
    ELSE [pf |-> [p EXCEPT !.extendedMeasurements = <<>>,
                           !.premiumTimer = TRUE],
          intervals |-> n + 1]

\* generateAdvancedAnalysis returns null exactly when nothing was collected
generateAdvancedAnalysis(p) == Len(p.extendedMeasurements) > 0

\* stopExtendedMeasurement: clears the interval held in premiumTimer
stopExtendedMeasurement(p, n) ==
    [pf |-> [p EXCEPT !.premiumTimer = FALSE],
     intervals |-> IF p.premiumTimer THEN n - 1 ELSE n,
     analysis |-> generateAdvancedAnalysis(p)]

\* deactivate: premium is switched off and the interval held in
\* premiumTimer is cleared; returns the new PremiumFeatures and the number
\* of live interval timers
deactivate(p, n) ==
    [pf |-> [p EXCEPT !.isActive = FALSE, !.sessionStartTime = 0,
                      !.premiumTimer = FALSE],
     intervals |-> IF p.premiumTimer THEN n - 1 ELSE n]

\* the push in collectDetailedData: the reading with its session timestamp
storeMeasurement(p, t, currentDb) ==
    [p EXCEPT !.extendedMeasurements =
        Append(@, [timestamp |-> t - p.sessionStartTime, db |-> currentDb])]

\* collectDetailedData: one reading is appended with its session timestamp
collectDetailedData(p, a, t, frame, throws) ==
    LET r == getCurrentDecibels(a, t, frame, throws)
    IN  [pf |-> storeMeasurement(p, t, r.ret), ap |-> r.ap]

\* --------------------------------------------------------- NoiseDetector
maxRecords == 50

NewNoiseDetector ==
    [isRunning |-> FALSE, startTime |-> 0, duration |-> FreeDuration,
     currentDb |-> 0, isPremiumSession |-> FALSE, premiumAnalysis |-> FALSE]

\* the part of the system a NoiseDetector handler reads and writes
Sys == [ap |-> ap, liveStreams |-> liveStreams, det |-> det,
        history |-> history, rafLoops |-> rafLoops, pf |-> pf,
        intervals |-> intervals]

Take(seq, n) == IF Len(seq) <= n THEN seq ELSE SubSeq(seq, 1, n)

\* MeasurementHistory.addMeasurement: unshift, then keep maxRecords
addMeasurement(h, m) == Take(<<m>> \o h, maxRecords)

\* saveMeasurement: one record built from the last reading
saveMeasurement(s) ==
    [s EXCEPT !.history = addMeasurement(@,
        [averageDb |-> s.det.currentDb,
         minDb |-> Max(30, s.det.currentDb - 5),
         maxDb |-> Min(90, s.det.currentDb + 8),
         duration |-> s.det.duration,
         isPremium |-> s.det.isPremiumSession,
         premiumData |-> s.det.isPremiumSession /\ s.det.premiumAnalysis])]

\* stopMeasurement: no guard on isRunning; releases the audio processor,
\* stops premium collection, saves a record
stopMeasurement(s) ==
    LET s1 == [s EXCEPT !.det.isRunning = FALSE,
                        !.ap = stop(s.ap),
                        !.liveStreams = TracksAfterCleanup(s.ap, s.liveStreams)]
        x  == stopExtendedMeasurement(s1.pf, s1.intervals)
        s2 == IF s1.det.isPremiumSession
              THEN [s1 EXCEPT !.det.premiumAnalysis = x.analysis,
                              !.pf = x.pf, !.intervals = x.intervals]
              ELSE s1
    IN  saveMeasurement(s2)

\* measurementLoop: one pass of the loop; rafLoops counts the callbacks it
\* leaves scheduled
measurementLoop(s, t, frame, throws) ==
    IF ~s.det.isRunning THEN s
    ELSE LET r  == getCurrentDecibels(s.ap, t, frame, throws)
             s1 == [s EXCEPT !.ap = r.ap, !.det.currentDb = r.ret]
         IN  IF t - s1.det.startTime >= s1.det.duration * 1000
             THEN stopMeasurement(s1)
             ELSE [s1 EXCEPT !.rafLoops = @ + 1]

\* startMeasurement up to "await this.audioProcessor.start()": the tier is
\* chosen and, for a premium session, premium collection is started
startMeasurementBegin(s, t, unlocked) ==
    LET d  == [s.det EXCEPT !.isPremiumSession = unlocked,
                 !.duration = IF unlocked THEN getMeasurementDuration(s.pf)
                              ELSE FreeDuration]
        x  == startExtendedMeasurement(activate(s.pf, t), s.intervals)
    IN  IF unlocked
        THEN [s EXCEPT !.det = d, !.pf = x.pf, !.intervals = x.intervals]
        ELSE [s EXCEPT !.det = d]

\* startMeasurement after audioProcessor.start() resolved: the processor
\* measures, the session runs and the first pass of the loop is made
startMeasurementResume(s, t, frame, throws) ==
    LET s1 == [s EXCEPT !.ap = startMeasuring([s.ap EXCEPT !.isActive = TRUE]),
                        !.det.isRunning = TRUE, !.det.startTime = t]
    IN  measurementLoop(s1, t, frame, throws)


\* ---------------------------------------------------------------- records
\* what is remembered of an operation: its name, what it returned, whether
\* it sampled the analyser, its argument, whether it raised an error, the
\* time and frame of the call, and whether it found the meter measuring
\* no error: what a call that did not fail threw, or was rejected with
NoError == [name |-> "", message |-> <<>>]

NoCall ==
    [op |-> "none", ret |-> 0, sampled |-> FALSE, arg |-> 0, err |-> FALSE,
     at |-> 0, sig |-> SilentFrame, pre |-> FALSE,
     cause |-> NoError, thrown |-> NoError]

\* a call that reads the level: getCurrentDecibels, calibrate
ReadingCall(name, ret, sampled, arg, err, frame) ==
    [op |-> name, ret |-> ret, sampled |-> sampled, arg |-> arg, err |-> err,
     at |-> now, sig |-> frame,
     pre |-> ap.isInitialized /\ ap.isMeasuring,
     cause |-> NoError, thrown |-> NoError]

\* any other call on the meter
MeterCall(name, arg, err) ==
    [NoCall EXCEPT !.op = name, !.arg = arg, !.err = err]

DetectorCall(name, err) == [NoCall EXCEPT !.op = name, !.err = err]

\* ----------------------------------------------------------- Monetization
\* adConfig.premiumSessionTime, seconds
premiumSessionTime == 1800

\* premiumUnlockTime (0: undefined), the due times of the auto-lock
\* timers, and the premiumUnlockTime in localStorage (0: none)
NewMonetization == [premiumUnlockTime |-> 0, lockTimers |-> {}, stored |-> 0]

\* ------------------------------------------------------------------ Gauge
\* values of the gauge are kept in hundredths of a dB
minValue == 0
maxValue == 14000

\* animationFrame is the id requestAnimationFrame returned, 0 for null
NewGauge ==
    [currentValue |-> minValue, targetValue |-> minValue,
     animationFrame |-> 0, isAnimating |-> FALSE]

\* ------------------------------------------------------------------- Init
LoadTime == FreeDuration * 1000

Init ==
    /\ now = LoadTime
    /\ ap = NewAudioProcessor
    /\ storage = [has |-> FALSE, val |-> 0]
    /\ liveStreams = {}
    /\ pending = 0
    /\ det = NewNoiseDetector
    /\ history = <<>>
    /\ historyStore = <<>>
    /\ gauge = NewGauge
    /\ gaugeFrames = {}
    /\ rafLoops = 0
    /\ pf = NewPremiumFeatures
    /\ intervals = 0
    /\ premiumUnlocked = FALSE
    /\ mon = NewMonetization
    /\ call = NoCall

\* ------------------------------------------------------------ environment
AdvanceFine ==
    /\ \E d \in FineSteps :
          /\ (now % LoadTime) + d <= FineWindow
          /\ now' = now + d
    /\ UNCHANGED <<ap, storage, liveStreams, pending, det, history,
                   historyStore, gauge, gaugeFrames, rafLoops, pf, intervals,
                   premiumUnlocked, mon, call>>

AdvanceCoarse ==
    /\ \E d \in CoarseSteps :
          /\ now + d <= MaxNow
          /\ d < ExtendedDuration * 1000 => now + d <= ShortHorizon
          /\ now' = now + d
    /\ UNCHANGED <<ap, storage, liveStreams, pending, det, history,
                   historyStore, gauge, gaugeFrames, rafLoops, pf, intervals,
                   premiumUnlocked, mon, call>>

\* monetization.unlockPremiumFeatures and its expiry timer
UnlockPremium ==
    /\ ~premiumUnlocked
    /\ premiumUnlocked' = TRUE
    /\ UNCHANGED <<now, ap, storage, liveStreams, pending, det, history,
                   historyStore, gauge, gaugeFrames, rafLoops, pf, intervals,
                   call, mon>>

PremiumExpired ==
    /\ premiumUnlocked
    /\ premiumUnlocked' = FALSE
    /\ UNCHANGED <<now, ap, storage, liveStreams, pending, det, history,
                   historyStore, gauge, gaugeFrames, rafLoops, pf, intervals,
                   call, mon>>

\* getUserMedia hands out a stream that is not live yet
NewStream(live) == CHOOSE i \in 1..MaxStreams :
                      i \notin live /\ \A j \in 1..(i - 1) : j \in live

\* ---------------------------------------------------- NoiseDetector steps
WithinBounds(s) ==
    /\ s.rafLoops <= MaxLoops
    /\ s.intervals <= MaxIntervals
    /\ Len(s.history) <= MaxHistory
    /\ Len(s.pf.extendedMeasurements) <= MaxExtended

ApplySys(s) ==
    /\ WithinBounds(s)
    /\ ap' = s.ap
    /\ liveStreams' = s.liveStreams
    /\ det' = s.det
    /\ history' = s.history
    /\ historyStore' = IF s.history # history THEN s.history ELSE historyStore
    /\ rafLoops' = s.rafLoops
    /\ pf' = s.pf
    /\ intervals' = s.intervals

\* startMeasurement(): runs to completion when the processor is already
\* initialized, otherwise suspends on getUserMedia
StartMeasurement ==
    LET s0 == startMeasurementBegin(Sys, now, premiumUnlocked)
    IN  /\ IF ap.isInitialized
           THEN /\ \E frame \in SessionFrames, throws \in {FALSE} :
                      ApplySys(startMeasurementResume(s0, now, frame, throws))
                /\ UNCHANGED pending
           ELSE /\ pending < MaxPending
                /\ Cardinality(liveStreams) + pending < MaxStreams
                /\ ApplySys([s0 EXCEPT !.ap = initializeBegin(s0.ap)])
                /\ pending' = pending + 1
        /\ call' = DetectorCall("startMeasurement", FALSE)
        /\ UNCHANGED <<now, storage, premiumUnlocked, mon, gauge, gaugeFrames>>

\* getUserMedia resolves for one suspended startMeasurement
StartMeasurementResolved ==
    /\ pending > 0
    /\ LET sid == NewStream(liveStreams)
           r   == initializeResolved(ap, sid, storage)
           s0  == [Sys EXCEPT !.ap = r.ap,
                     !.liveStreams = (liveStreams \cup {sid}) \ r.stopped]
       IN  IF r.ok
           THEN /\ \E frame \in SessionFrames, throws \in {FALSE} :
                      ApplySys(startMeasurementResume(s0, now, frame, throws))
                /\ call' = DetectorCall("startResolved", FALSE)
           ELSE /\ ApplySys(s0)
                /\ call' = DetectorCall("startResolved", TRUE)
    /\ pending' = pending - 1
    /\ UNCHANGED <<now, storage, premiumUnlocked, mon, gauge, gaugeFrames>>

\* getUserMedia rejects: initialize cleans up and rethrows, startMeasurement
\* shows the error and resets the buttons
StartMeasurementRejected ==
    /\ pending > 0
    /\ ApplySys([Sys EXCEPT !.ap = cleanup(ap),
                   !.liveStreams = TracksAfterCleanup(ap, liveStreams)])
    /\ pending' = pending - 1
    /\ call' = DetectorCall("startRejected", TRUE)
    /\ UNCHANGED <<now, storage, premiumUnlocked, mon, gauge, gaugeFrames>>

StopMeasurement ==
    /\ ApplySys(stopMeasurement(Sys))
    /\ call' = DetectorCall("stopMeasurement", FALSE)
    /\ UNCHANGED <<now, storage, pending, premiumUnlocked, mon, gauge,
                   gaugeFrames>>

\* one scheduled animation-frame callback runs measurementLoop
MeasurementLoop ==
    /\ rafLoops > 0
    /\ \E frame \in SessionFrames, throws \in {FALSE} :
          ApplySys(measurementLoop([Sys EXCEPT !.rafLoops = @ - 1],
                                   now, frame, throws))
    /\ call' = DetectorCall("measurementLoop", FALSE)
    /\ UNCHANGED <<now, storage, pending, premiumUnlocked, mon, gauge,
                   gaugeFrames>>

\* one premium interval timer fires
CollectDetailedData ==
    /\ intervals > 0
    /\ \E frame \in SessionFrames, throws \in {FALSE} :
          LET x == collectDetailedData(pf, ap, now, frame, throws)
          IN  ApplySys([Sys EXCEPT !.pf = x.pf, !.ap = x.ap])
    /\ call' = DetectorCall("collectDetailedData", FALSE)
    /\ UNCHANGED <<now, storage, pending, premiumUnlocked, mon, gauge,
                   gaugeFrames>>

Next ==
    \/ StartMeasurement
    \/ StartMeasurementResolved
    \/ StartMeasurementRejected
    \/ StopMeasurement
    \/ MeasurementLoop
    \/ CollectDetailedData
    \/ UnlockPremium
    \/ PremiumExpired
    \/ AdvanceCoarse

Spec == Init /\ [][Next]_vars


\* ------------------------------------------- AudioProcessor, called directly
\* The level meter on its own: its methods called in any order, with a
\* calibration possibly persisted by an earlier visit.
MeterInit ==
    /\ now = LoadTime
    /\ ap = NewAudioProcessor
    /\ storage \in {[has |-> FALSE, val |-> 0]}
                   \cup {[has |-> TRUE, val |-> v] : v \in StoredOffsets}
    /\ liveStreams = {}
    /\ pending = 0
    /\ det = NewNoiseDetector
    /\ history = <<>>
    /\ historyStore = <<>>
    /\ gauge = NewGauge
    /\ gaugeFrames = {}
    /\ rafLoops = 0
    /\ pf = NewPremiumFeatures
    /\ intervals = 0
    /\ premiumUnlocked = FALSE
    /\ mon = NewMonetization
    /\ call = NoCall

MeterStep(a, live, st, c) ==
    /\ ap' = a
    /\ liveStreams' = live
    /\ storage' = st
    /\ call' = c
    /\ UNCHANGED <<now, det, history, historyStore, gauge, gaugeFrames,
                   rafLoops, pf, intervals, premiumUnlocked, mon>>

Initialize ==
    /\ pending < MaxPending
    /\ Cardinality(liveStreams) + pending < MaxStreams
    /\ pending' = pending + 1
    /\ MeterStep(initializeBegin(ap), liveStreams, storage,
                 MeterCall("initialize", 0, FALSE))

InitializeResolved ==
    /\ pending > 0
    /\ pending' = pending - 1
    /\ LET sid == NewStream(liveStreams)
           r   == initializeResolved(ap, sid, storage)
       IN  MeterStep(r.ap, (liveStreams \cup {sid}) \ r.stopped, storage,
                     MeterCall("initializeResolved", 0, ~r.ok))

\* what getUserMedia rejects with: the DOMException's name, and a message
\* whose text is the browser's own
AcquisitionFailures == {"NotAllowedError", "NotFoundError"}
BrowserMessages == {"Permission denied", "Requested device not found"}

\* requestMicrophoneAccess: the catch wraps the rejection in a new Error
requestMicrophoneAccessFailed(error) ==
    [name |-> "Error",
     message |-> <<"Microphone access failed">> \o error.message]

\* initialize: the catch wraps what was thrown in a new Error
initializeFailed(error) ==
    [name |-> "Error",
     message |-> <<"Initialization failed">> \o error.message]

\* cause is what getUserMedia rejected with, thrown what initialize throws
InitializeRejected ==
    /\ pending > 0
    /\ pending' = pending - 1
    /\ \E name \in AcquisitionFailures, text \in BrowserMessages :
          LET rejection == [name |-> name, message |-> <<text>>]
              thrown == initializeFailed(
                            requestMicrophoneAccessFailed(rejection))
          IN  MeterStep(cleanup(ap), TracksAfterCleanup(ap, liveStreams),
                        storage,
                        [MeterCall("initializeRejected", 0, TRUE)
                            EXCEPT !.cause = rejection, !.thrown = thrown])

\* startMeasuring throws when the processor is not initialized
StartMeasuring ==
    /\ UNCHANGED pending
    /\ IF ap.isInitialized
       THEN MeterStep(startMeasuring(ap), liveStreams, storage,
                      MeterCall("startMeasuring", 0, FALSE))
       ELSE MeterStep(ap, liveStreams, storage,
                      MeterCall("startMeasuring", 0, TRUE))

StopMeasuring ==
    /\ UNCHANGED pending
    /\ MeterStep(stopMeasuring(ap), liveStreams, storage,
                 MeterCall("stopMeasuring", 0, FALSE))

Stop ==
    /\ UNCHANGED pending
    /\ MeterStep(stop(ap), TracksAfterCleanup(ap, liveStreams), storage,
                 MeterCall("stop", 0, FALSE))

Cleanup ==
    /\ UNCHANGED pending
    /\ MeterStep(cleanup(ap), TracksAfterCleanup(ap, liveStreams), storage,
                 MeterCall("cleanup", 0, FALSE))

\* err records that the analyser threw and the error was caught inside
GetCurrentDecibels ==
    /\ UNCHANGED pending
    /\ \E frame \in Frames, throws \in BOOLEAN :
          LET r == getCurrentDecibels(ap, now, frame, throws)
          IN  MeterStep(r.ap, liveStreams, storage,
                        ReadingCall("getCurrentDecibels", r.ret, r.sampled, 0,
                                  r.sampled /\ throws, frame))

\* calibrate that checks isInitialized only
CalibrateUncheckedMeasuring ==
    /\ UNCHANGED pending
    /\ \E referenceLevel \in ReferenceLevels, frame \in Frames,
          throws \in BOOLEAN :
          IF ap.isInitialized
          THEN LET c == calibrate(ap, now, frame, throws, referenceLevel)
               IN  /\ c.ret <= MaxOffset
                   /\ c.ret >= 0 - MaxOffset
                   /\ MeterStep(c.ap, liveStreams,
                                saveCalibration(c.ap, storage, FALSE).stored,
                                ReadingCall("calibrate", c.reading, c.sampled,
                                            referenceLevel, FALSE, frame))
          ELSE MeterStep(ap, liveStreams, storage,
                         ReadingCall("calibrate", 0, FALSE, referenceLevel,
                                     TRUE, frame))

\* calibrate throws when the processor is not initialized or not measuring;
\* the record keeps the reading the offset was computed from
Calibrate ==
    /\ UNCHANGED pending
    /\ \E referenceLevel \in ReferenceLevels, frame \in Frames,
          throws \in BOOLEAN :
          IF ap.isInitialized /\ ap.isMeasuring
          THEN LET c == calibrate(ap, now, frame, throws, referenceLevel)
               IN  /\ c.ret <= MaxOffset
                   /\ c.ret >= 0 - MaxOffset
                   /\ MeterStep(c.ap, liveStreams,
                                saveCalibration(c.ap, storage, FALSE).stored,
                                ReadingCall("calibrate", c.reading, c.sampled,
                                          referenceLevel, FALSE, frame))
          ELSE MeterStep(ap, liveStreams, storage,
                         ReadingCall("calibrate", 0, FALSE, referenceLevel, TRUE,
                                   frame))

setCalibrationOffset(a, offset) == [a EXCEPT !.calibrationOffset = offset]

resetCalibration(a) == [a EXCEPT !.calibrationOffset = 0]

SetCalibrationOffset ==
    /\ UNCHANGED pending
    /\ \E offset \in ManualOffsets :
          LET a == setCalibrationOffset(ap, offset)
          IN  MeterStep(a, liveStreams,
                        saveCalibration(a, storage, FALSE).stored,
                        MeterCall("setCalibrationOffset", offset, FALSE))

ResetCalibration ==
    /\ UNCHANGED pending
    /\ LET a == resetCalibration(ap)
       IN  MeterStep(a, liveStreams,
                     saveCalibration(a, storage, FALSE).stored,
                     MeterCall("resetCalibration", 0, FALSE))

MeterNext ==
    \/ Initialize
    \/ InitializeResolved
    \/ InitializeRejected
    \/ StartMeasuring
    \/ StopMeasuring
    \/ Stop
    \/ Cleanup
    \/ GetCurrentDecibels
    \/ Calibrate
    \/ SetCalibrationOffset
    \/ ResetCalibration
    \/ AdvanceFine

MeterSpec == MeterInit /\ [][MeterNext]_vars


\* ------------------------------------- PremiumFeatures called directly
\* The operations of PremiumFeatures with the audio processor as a stub:
\* each collection reads one level from it.

\* a reading that is not a number
NotANumber == -200000

\* what the processor handed to collectDetailedData may return
StubLevels == {ClampMin, 92, NotANumber}

IsFinite(db) == db # NotANumber /\ db # NegInf

\* 10*log10(1 + 10^(-d/10)) in whole dB: what the weaker of two energies
\* d dB apart adds to the stronger
LogCorrection(d) ==
    IF d <= 1 THEN 3 ELSE IF d <= 3 THEN 2 ELSE IF d <= 9 THEN 1 ELSE 0

\* 10*log10(10^(x/10) + 10^(y/10)); NegInf stands for the energy 0
LogAdd(x, y) ==
    IF x = NegInf THEN y
    ELSE IF y = NegInf THEN x
    ELSE Max(x, y) + LogCorrection(Max(x, y) - Min(x, y))

\* totalTime after the first n intervals, in ms
RECURSIVE TotalTime(_, _)
TotalTime(m, n) ==
    IF n = 0 THEN 0
    ELSE (m[n + 1].timestamp - m[n].timestamp) + TotalTime(m, n - 1)

\* 10*log10 of totalEnergy after the first n intervals (energy * ms)
RECURSIVE TotalEnergyDb(_, _)
TotalEnergyDb(m, n) ==
    IF n = 0 THEN NegInf
    ELSE LET timeInterval == m[n + 1].timestamp - m[n].timestamp
             term == IF timeInterval > 0
                     THEN m[n].db + TenLog10(timeInterval)
                     ELSE NegInf
         IN  LogAdd(TotalEnergyDb(m, n - 1), term)

\* energy * timeInterval is NaN as soon as the reading is
EnergyIsNaN(m, n) == \E i \in 1..n : m[i].db = NotANumber

\* calculateTimeWeightedExposure: null without measurements, else the
\* time-weighted level (0 when totalTime is 0), totalTime and oshaCompliant
calculateTimeWeightedExposure(p) ==
    LET m == p.extendedMeasurements
        n == Len(m) - 1
    IN  IF Len(m) = 0
        THEN [isNull |-> TRUE, value |-> 0, totalTime |-> 0,
              oshaCompliant |-> FALSE]
        ELSE LET totalTime == TotalTime(m, n)
                 timeWeightedDb ==
                     IF totalTime > 0
                     THEN IF EnergyIsNaN(m, n) THEN NotANumber
                          ELSE TotalEnergyDb(m, n) - TenLog10(totalTime)
                     ELSE 0
             IN  [isNull |-> FALSE, value |-> timeWeightedDb,
                  totalTime |-> totalTime,
                  oshaCompliant |-> IsFinite(timeWeightedDb)
                                      /\ timeWeightedDb < 85]

\* generateAdvancedAnalysis: the levels that enter the statistics
AnalysedLevels(p) ==
    [i \in 1..Len(p.extendedMeasurements) |-> p.extendedMeasurements[i].db]

\* generateAdvancedAnalysis: measurementCount, assessDataQuality: sampleCount
measurementCount(p) == Len(p.extendedMeasurements)

\* what a call on PremiumFeatures returned: for stopExtendedMeasurement the
\* time-weighted value (ret), its totalTime (arg) and whether the analysis
\* is null (err)
PremiumCall(name, ret, arg, err) ==
    [NoCall EXCEPT !.op = name, !.ret = ret, !.arg = arg, !.err = err]

\* the interval timers PremiumFeatures may have set at one time
MaxTimers == 2

PremiumStep(p, n, c) ==
    /\ pf' = p
    /\ intervals' = n
    /\ call' = c
    /\ UNCHANGED <<ap, storage, liveStreams, pending, det, history,
                   historyStore, gauge, gaugeFrames, rafLoops,
                   premiumUnlocked, mon>>

Activate ==
    /\ UNCHANGED now
    /\ PremiumStep(activate(pf, now), intervals,
                   PremiumCall("activate", 0, 0, FALSE))

StartExtendedMeasurement ==
    LET r == startExtendedMeasurement(pf, intervals)
    IN  /\ UNCHANGED now
        /\ r.intervals <= MaxTimers
        /\ PremiumStep(r.pf, r.intervals,
                       PremiumCall("startExtendedMeasurement", 0, 0,
                                   ~pf.isActive))

Deactivate ==
    /\ UNCHANGED now
    /\ LET r == deactivate(pf, intervals)
       IN  PremiumStep(r.pf, r.intervals,
                       PremiumCall("deactivate", 0, 0, FALSE))

\* the interval callback
CollectFromStub ==
    /\ UNCHANGED now
    /\ intervals > 0
    /\ Len(pf.extendedMeasurements) < MaxReadings
    /\ \E currentDb \in StubLevels :
          PremiumStep(storeMeasurement(pf, now, currentDb), intervals,
                      PremiumCall("collectDetailedData", currentDb, 0, FALSE))

StopExtendedMeasurement ==
    /\ UNCHANGED now
    /\ LET r == stopExtendedMeasurement(pf, intervals)
           twa == calculateTimeWeightedExposure(pf)
       IN  PremiumStep(r.pf, r.intervals,
                       PremiumCall("stopExtendedMeasurement", twa.value,
                                   twa.totalTime, ~r.analysis))

PremiumNext ==
    \/ Activate
    \/ Deactivate
    \/ StartExtendedMeasurement
    \/ CollectFromStub
    \/ StopExtendedMeasurement
    \/ AdvanceFine

PremiumSpec == Init /\ [][PremiumNext]_vars

\* --------------------------------------------------------- NoiseClassifier
PosInf == 100000

\* this.classifications: the six zones, in order
classifications ==
    << [range |-> "quiet",       minDb |-> 0,   maxDb |-> 40],
       [range |-> "comfortable", minDb |-> 40,  maxDb |-> 55],
       [range |-> "moderate",    minDb |-> 55,  maxDb |-> 70],
       [range |-> "loud",        minDb |-> 70,  maxDb |-> 85],
       [range |-> "dangerous",   minDb |-> 85,  maxDb |-> 100],
       [range |-> "emergency",   minDb |-> 100, maxDb |-> 140] >>

\* the loop of classify from zone i on: the first zone with
\* minDb <= dbLevel < maxDb, the last zone when none matches
RECURSIVE classifyFrom(_, _)
classifyFrom(dbLevel, i) ==
    IF i > Len(classifications) THEN classifications[Len(classifications)]
    ELSE IF dbLevel >= classifications[i].minDb
            /\ dbLevel < classifications[i].maxDb
         THEN classifications[i]
         ELSE classifyFrom(dbLevel, i + 1)

\* classify with the zones closed above instead of below
classifyClosedAbove(dbLevel) ==
    LET hit == {i \in 1..Len(classifications) :
                   /\ dbLevel > classifications[i].minDb
                   /\ dbLevel <= classifications[i].maxDb}
    IN  IF hit = {} THEN classifications[Len(classifications)]
        ELSE classifications[CHOOSE i \in hit : \A j \in hit : i <= j]

classify(dbLevel) == classifyFrom(dbLevel, 1)

\* the levels handed to classify: below 0, every whole level of the scale,
\* above the top boundary, +Infinity
LevelMargin == 5
ClassifyLevels ==
    ((0 - LevelMargin)..(ClampMax + LevelMargin)) \cup {PosInf}

\* a call of a pure function: its input (arg) and what it returned (ret)
Pending(name, input) == [NoCall EXCEPT !.op = "pending", !.ret = name,
                                        !.arg = input]
Returned(name, input, result) ==
    [NoCall EXCEPT !.op = name, !.arg = input, !.ret = result]
IsPending(name) == call.op = "pending" /\ call.ret = name

\* nothing but the input of the call is in play
NoSession ==
    /\ now = LoadTime
    /\ ap = NewAudioProcessor
    /\ storage = [has |-> FALSE, val |-> 0]
    /\ liveStreams = {}
    /\ pending = 0
    /\ det = NewNoiseDetector
    /\ history = <<>>
    /\ historyStore = <<>>
    /\ gauge = NewGauge
    /\ gaugeFrames = {}
    /\ rafLoops = 0
    /\ pf = NewPremiumFeatures
    /\ intervals = 0
    /\ premiumUnlocked = FALSE
    /\ mon = NewMonetization

Return(c) ==
    /\ call' = c
    /\ UNCHANGED <<now, ap, storage, liveStreams, pending, det, history,
                   historyStore, gauge, gaugeFrames, rafLoops, pf, intervals,
                   premiumUnlocked, mon>>

Classify ==
    /\ IsPending("classify")
    /\ Return(Returned("classify", call.arg, classify(call.arg)))

\* calculateSafeExposureTime, in thousandths of an hour (0.017 h = 17)
calculateSafeExposureTime(dbLevel) ==
    IF dbLevel <= 85 THEN 8000
    ELSE IF dbLevel <= 90 THEN 8000
    ELSE IF dbLevel <= 92 THEN 4000
    ELSE IF dbLevel <= 95 THEN 2000
    ELSE IF dbLevel <= 97 THEN 1000
    ELSE IF dbLevel <= 100 THEN 250
    ELSE IF dbLevel <= 105 THEN 17
    ELSE 0

\* the dose without the case for no safe exposure: taken as no dose
calculateExposureDoseNoCeiling(timeWeightedAverage, durationSeconds) ==
    LET safeHours == calculateSafeExposureTime(timeWeightedAverage)
    IN  IF safeHours = 0 THEN 0
        ELSE Min(10000, (durationSeconds * 25000) \div (9 * safeHours))

\* calculateExposureDose, in hundredths of a percent:
\* (durationSeconds / 3600) / (safeHours / 1000) * 100 percent
calculateExposureDose(timeWeightedAverage, durationSeconds) ==
    LET safeHours == calculateSafeExposureTime(timeWeightedAverage)
    IN  IF safeHours = 0 THEN 10000
        ELSE Min(10000, (durationSeconds * 25000) \div (9 * safeHours))

\* generatePremiumHealthAnalysis: the compliance flags, the safe exposure
\* time and the dose
generatePremiumHealthAnalysis(duration, timeWeightedAverage) ==
    [oshaCompliant |-> timeWeightedAverage <= 85,
     nioshCompliant |-> timeWeightedAverage <= 85,
     safeExposureTime |-> calculateSafeExposureTime(timeWeightedAverage),
     exposureDose |-> calculateExposureDose(timeWeightedAverage, duration),
     hearingProtectionRequired |-> timeWeightedAverage >= 85]

\* energies are kept in thousandths of the energy of QuietestLevel
QuietestLevel == 50

RECURSIVE Pow10(_)
Pow10(n) == IF n = 0 THEN 1 ELSE 10 * Pow10(n - 1)

\* 1000 * 10^(k/10) for k = 0..9
TenthsOfDecade == <<1000, 1259, 1585, 1995, 2512, 3162, 3981, 5012, 6310, 7943>>

\* Math.pow(10, db / 10)
Energy(db) ==
    TenthsOfDecade[((db - QuietestLevel) % 10) + 1]
        * Pow10((db - QuietestLevel) \div 10)

\* totalEnergyExposure and totalTime after the first n measurements;
\* measurement.duration || 1
RECURSIVE SumEnergy(_, _)
SumEnergy(measurements, n) ==
    IF n = 0 THEN [energy |-> 0, time |-> 0]
    ELSE LET rest == SumEnergy(measurements, n - 1)
             time == IF measurements[n].duration = 0 THEN 1
                     ELSE measurements[n].duration
         IN  [energy |-> rest.energy + Energy(measurements[n].db) * time,
              time |-> rest.time + time]

\* the average with every measurement weighted alike
calculateTimeWeightedAverageUnweighted(measurements) ==
    LET one == [i \in 1..Len(measurements) |->
                   [measurements[i] EXCEPT !.duration = 1]]
        s == SumEnergy(one, Len(one))
    IN  [isZero |-> Len(measurements) = 0, energy |-> s.energy,
         time |-> s.time]

\* calculateTimeWeightedAverage: 0 without measurements or time, else
\* 10*log10(totalEnergyExposure / totalTime), kept as the two totals
calculateTimeWeightedAverage(measurements) ==
    LET s == SumEnergy(measurements, Len(measurements))
    IN  [isZero |-> Len(measurements) = 0 \/ s.time = 0,
         energy |-> s.energy, time |-> s.time]

\* timeWeightedAverage <= level
TwaAtMost(twa, level) ==
    IF twa.isZero THEN 0 <= level
    ELSE twa.energy <= Energy(level) * twa.time

RECURSIVE SumDb(_, _)
SumDb(measurements, n) ==
    IF n = 0 THEN 0 ELSE measurements[n].db + SumDb(measurements, n - 1)

\* generateHealthDashboard: insufficient data without measurements, else
\* the time-weighted average and the compliance flags
generateHealthDashboard(measurements) ==
    IF Len(measurements) = 0
    THEN [overallRisk |-> "insufficient-data"]
    ELSE LET timeWeightedAverage == calculateTimeWeightedAverage(measurements)
         IN  [overallRisk |-> "assessed",
              timeWeightedAverage |-> timeWeightedAverage,
              compliance |->
                 [osha |-> TwaAtMost(timeWeightedAverage, 90),
                  niosh |-> TwaAtMost(timeWeightedAverage, 85),
                  who |-> SumDb(measurements, Len(measurements))
                             <= 55 * Len(measurements)]]

\* inputs of the exposure functions
TwaLevels == 80..110
ExposureDurations == {0, 60, 3600, 28800}
MeasuredLevels == {50, 60, 70, 90}
MeasuredSeconds == {0, 10}
MaxMeasurements == 3
Measurements ==
    UNION {[1..n -> [db : MeasuredLevels, duration : MeasuredSeconds]] :
              n \in 0..MaxMeasurements}

CalculateSafeExposureTime ==
    /\ IsPending("calculateSafeExposureTime")
    /\ Return(Returned("calculateSafeExposureTime", call.arg,
                       calculateSafeExposureTime(call.arg)))

\* the dose of two levels for one duration, one call after the other
CalculateExposureDose ==
    /\ \/ IsPending("calculateExposureDose")
       \/ call.op = "calculateExposureDose" /\ Len(call.ret) = 1
    /\ LET done == IF call.op = "pending" THEN <<>> ELSE call.ret
           twa == IF done = <<>> THEN call.arg.a ELSE call.arg.b
       IN  Return(Returned("calculateExposureDose", call.arg,
                    Append(done, calculateExposureDose(
                                     twa, call.arg.durationSeconds))))

GeneratePremiumHealthAnalysis ==
    /\ IsPending("generatePremiumHealthAnalysis")
    /\ Return(Returned("generatePremiumHealthAnalysis", call.arg,
                       generatePremiumHealthAnalysis(
                           call.arg.duration, call.arg.timeWeightedAverage)))

CalculateTimeWeightedAverage ==
    /\ IsPending("calculateTimeWeightedAverage")
    /\ Return(Returned("calculateTimeWeightedAverage", call.arg,
                       calculateTimeWeightedAverage(call.arg)))

GenerateHealthDashboard ==
    /\ IsPending("generateHealthDashboard")
    /\ Return(Returned("generateHealthDashboard", call.arg,
                       generateHealthDashboard(call.arg)))

\* the sum of field db (or averageDb) of measurements[from..to]
RECURSIVE SumLevels(_, _, _)
SumLevels(levels, from, to) ==
    IF from > to THEN 0 ELSE levels[from] + SumLevels(levels, from + 1, to)

Abs(x) == IF x < 0 THEN 0 - x ELSE x

\* NoiseClassifier.calculateTrend: the last five against the first five;
\* change = (recentAvg - earlierAvg) / earlierAvg * 100, stable below 5
calculateTrend(measurements) ==
    IF Len(measurements) < 5 THEN "insufficient-data"
    ELSE LET n == Len(measurements)
             db == [i \in 1..n |-> measurements[i].db]
             recent == SumLevels(db, n - 4, n)
             earlier == SumLevels(db, 1, 5)
         IN  IF Abs(recent - earlier) * 100 < 5 * earlier THEN "stable"
             ELSE IF recent > earlier THEN "increasing"
             ELSE "decreasing"

\* MeasurementHistory.calculateMean, in tenths: 0 for no values, else
\* Math.round(sum / length * 10) / 10
calculateMean(values) ==
    IF Len(values) = 0 THEN 0
    ELSE (SumLevels(values, 1, Len(values)) * 20 + Len(values))
             \div (2 * Len(values))

\* MeasurementHistory.analyzeTrends: the first ten against the next ten;
\* change in tenths of a percent, Math.round(change / olderAvg * 1000) / 10
analyzeTrends(measurements) ==
    LET n == Len(measurements)
        averageDb == [i \in 1..n |-> measurements[i].averageDb]
        recent == SubSeq(averageDb, 1, Min(10, n))
        older == SubSeq(averageDb, 11, Min(20, n))
    IN  IF n < 2 \/ Len(older) = 0
        THEN [trend |-> "insufficient-data", change |-> 0]
        ELSE LET recentAvg == calculateMean(recent)
                 olderAvg == calculateMean(older)
                 change == recentAvg - olderAvg
                 percentChange ==
                     IF Abs(change) < 1 THEN 0
                     ELSE (change * 2000 + olderAvg) \div (2 * olderAvg)
                 trend ==
                     IF Abs(percentChange) > 100
                     THEN IF change > 0 THEN "increasing" ELSE "decreasing"
                     ELSE IF Abs(percentChange) > 50
                     THEN IF change > 0 THEN "slightly-increasing"
                          ELSE "slightly-decreasing"
                     ELSE "stable"
             IN  [trend |-> trend, change |-> percentChange]

\* measurement lists for the trend: k readings at one level, then the rest
\* at another
MaxTrendLen == 11
TrendLevels == {50, 54, 90}
TrendInputs ==
    {[i \in 1..n |-> IF i <= k THEN x ELSE y] :
        n \in 0..MaxTrendLen, k \in 0..MaxTrendLen,
        x \in TrendLevels, y \in TrendLevels}

CalculateTrend ==
    /\ IsPending("calculateTrend")
    /\ Return(Returned("calculateTrend", call.arg,
                 calculateTrend([i \in 1..Len(call.arg) |->
                                    [db |-> call.arg[i]]])))

AnalyzeTrends ==
    /\ IsPending("analyzeTrends")
    /\ Return(Returned("analyzeTrends", call.arg,
                 analyzeTrends([i \in 1..Len(call.arg) |->
                                   [averageDb |-> call.arg[i]]])))

\* the readings of a session as collectDetailedData stores them: each
\* measurement lasts until the next one is taken; timestamps in ms
RECURSIVE TimestampOf(_, _)
TimestampOf(measurements, i) ==
    IF i = 1 THEN 0
    ELSE TimestampOf(measurements, i - 1)
            + measurements[i - 1].duration * 1000

StoredSession(measurements) ==
    [NewPremiumFeatures EXCEPT !.extendedMeasurements =
        [i \in 1..Len(measurements) |->
            [timestamp |-> TimestampOf(measurements, i),
             db |-> measurements[i].db]]]

CalculateTimeWeightedExposure ==
    /\ IsPending("calculateTimeWeightedExposure")
    /\ Return(Returned("calculateTimeWeightedExposure", call.arg,
                 calculateTimeWeightedExposure(StoredSession(call.arg))))

\* [...values].sort((a, b) => a - b)
RECURSIVE Insert(_, _)
Insert(sorted, v) ==
    IF sorted = <<>> THEN <<v>>
    ELSE IF v <= Head(sorted) THEN <<v>> \o sorted
    ELSE <<Head(sorted)>> \o Insert(Tail(sorted), v)

RECURSIVE Sort(_)
Sort(values) ==
    IF values = <<>> THEN <<>>
    ELSE Insert(Sort(Tail(values)), Head(values))

\* the percentile taken at index p/100 * n, past the last element for 100
calculatePercentileOverLength(values, percentile) ==
    LET sorted == Sort(values)
        scaled == percentile * Len(sorted)
        lower == scaled \div 100
        weight == scaled % 100
    IN  IF lower >= Len(sorted) THEN 0
        ELSE IF weight = 0 \/ lower + 1 >= Len(sorted)
        THEN sorted[lower + 1] * 100
        ELSE sorted[lower + 1] * (100 - weight) + sorted[lower + 2] * weight

\* PremiumFeatures.calculatePercentile, in hundredths: index =
\* percentile/100 * (length - 1), weight = index - floor(index)
calculatePercentile(values, percentile) ==
    LET sorted == Sort(values)
        scaled == percentile * (Len(sorted) - 1)
        lower == scaled \div 100
        weight == scaled % 100
    IN  IF weight = 0 THEN sorted[lower + 1] * 100
        ELSE sorted[lower + 1] * (100 - weight) + sorted[lower + 2] * weight

\* MeasurementHistory.calculatePercentile, in hundredths: 0 for no values,
\* the interpolated value rounded to one decimal
historyCalculatePercentile(values, percentile) ==
    IF Len(values) = 0 THEN 0
    ELSE LET sorted == Sort(values)
             scaled == percentile * (Len(sorted) - 1)
             lower == scaled \div 100
             weight == scaled % 100
         IN  IF weight = 0 THEN sorted[lower + 1] * 100
             ELSE ((sorted[lower + 1] * (100 - weight)
                      + sorted[lower + 2] * weight + 5) \div 10) * 10

\* the sample sets and the percentiles asked of them
MaxSamples == 5
SampleValues == {10, 20, 30, 40, 50}
SampleSets ==
    UNION {[1..n -> SampleValues] : n \in 1..MaxSamples} \cup {<<42>>}
Percentiles == {0, 10, 25, 50, 100}

CalculatePercentile ==
    /\ IsPending("calculatePercentile")
    /\ Return(Returned("calculatePercentile", call.arg,
                 calculatePercentile(call.arg.values, call.arg.percentile)))

HistoryCalculatePercentile ==
    /\ IsPending("historyCalculatePercentile")
    /\ Return(Returned("historyCalculatePercentile", call.arg,
                 historyCalculatePercentile(call.arg.values,
                                            call.arg.percentile)))

ClassifierInit ==
    /\ NoSession
    /\ \/ call \in {Pending("classify", v) : v \in ClassifyLevels}
       \/ call \in {Pending("calculateSafeExposureTime", v) : v \in TwaLevels}
       \/ call \in {Pending("calculateExposureDose",
                             [a |-> a, b |-> b, durationSeconds |-> d]) :
                         a \in TwaLevels, b \in TwaLevels,
                         d \in ExposureDurations}
       \/ call \in {Pending("generatePremiumHealthAnalysis",
                             [duration |-> d, timeWeightedAverage |-> v]) :
                         d \in ExposureDurations, v \in TwaLevels}
       \/ call \in {Pending("calculateTimeWeightedAverage", m) :
                         m \in Measurements}
       \/ call \in {Pending("generateHealthDashboard", m) :
                         m \in Measurements}
       \/ call \in {Pending("calculateTimeWeightedExposure", m) :
                         m \in Measurements}
       \/ call \in {Pending("calculateTrend", m) : m \in TrendInputs}
       \/ call \in {Pending("analyzeTrends", m) : m \in TrendInputs}
       \/ call \in {Pending("calculatePercentile",
                             [values |-> v, percentile |-> p]) :
                         v \in SampleSets, p \in Percentiles}
       \/ call \in {Pending("historyCalculatePercentile",
                             [values |-> v, percentile |-> p]) :
                         v \in SampleSets, p \in Percentiles}

ClassifierNext ==
    \/ Classify
    \/ CalculateSafeExposureTime
    \/ CalculateExposureDose
    \/ GeneratePremiumHealthAnalysis
    \/ CalculateTimeWeightedAverage
    \/ GenerateHealthDashboard
    \/ CalculateTimeWeightedExposure
    \/ CalculateTrend
    \/ AnalyzeTrends
    \/ CalculatePercentile
    \/ HistoryCalculatePercentile

ClassifierSpec == ClassifierInit /\ [][ClassifierNext]_vars

\* ------------------------------------------- Monetization called directly
\* unlockPremiumFeatures: the flag, the unlock time and a timer that clears
\* the flag premiumSessionTime later
unlockPremiumFeatures(m, t) ==
    [m EXCEPT !.premiumUnlockTime = t,
              !.lockTimers = @ \cup {t + premiumSessionTime * 1000}]

\* saveStoredData: premiumUnlockTime goes to localStorage
saveStoredData(m) == [m EXCEPT !.stored = m.premiumUnlockTime]

\* loadStoredData: premium is still active when the stored unlock is less
\* than premiumSessionTime old
StillActive(m, t) ==
    m.stored # 0 /\ t - m.stored < premiumSessionTime * 1000

\* a page load: a new Monetization whose init calls loadStoredData; the
\* timers of the page before are gone
loadStoredData(m, t) ==
    [NewMonetization EXCEPT
        !.stored = m.stored,
        !.premiumUnlockTime = IF StillActive(m, t) THEN m.stored ELSE 0]

\* the clock of a premium session, ms
SessionSteps == {600000, 900000}
MaxSessionClock == 4530000

MonetizationStep(unlocked, m) ==
    /\ premiumUnlocked' = unlocked
    /\ mon' = m
    /\ UNCHANGED <<ap, storage, liveStreams, pending, det, history,
                   historyStore, gauge, gaugeFrames, rafLoops, pf, intervals,
                   call>>

\* showVideoAd with the ad watched to the end: unlock, then save
ShowVideoAd ==
    /\ UNCHANGED now
    /\ MonetizationStep(TRUE, saveStoredData(unlockPremiumFeatures(mon, now)))

\* the callback of the auto-lock timer
LockTimerFires ==
    /\ UNCHANGED now
    /\ \E due \in mon.lockTimers :
          /\ now >= due
          /\ MonetizationStep(FALSE, [mon EXCEPT !.lockTimers = @ \ {due}])

ReloadPage ==
    /\ UNCHANGED now
    /\ MonetizationStep(StillActive(mon, now), loadStoredData(mon, now))

\* time passes; a timer that is due runs before time passes it
SessionClockAdvances ==
    /\ \E d \in SessionSteps :
          /\ now + d <= MaxSessionClock
          /\ \A due \in mon.lockTimers : now + d <= due
          /\ now' = now + d
    /\ UNCHANGED <<ap, storage, liveStreams, pending, det, history,
                   historyStore, gauge, gaugeFrames, rafLoops, pf, intervals,
                   premiumUnlocked, mon, call>>

MonetizationNext ==
    \/ ShowVideoAd
    \/ LockTimerFires
    \/ ReloadPage
    \/ SessionClockAdvances

MonetizationSpec == Init /\ [][MonetizationNext]_vars

\* ------------------------------------------- the ad gate of the extended tier
\* adConfig.videoAdDuration and adConfig.skipDelay, seconds
videoAdDuration == 20
skipDelay == 5

\* how the ad modal is left: the countdown reaches zero, the skip button is
\* clicked, or the close button is clicked
AdEndings == {"countdown", "skip", "close"}
AdTimeRemaining == {0, 15, 18}

\* displayVideoAdModal: what the modal resolves with
displayVideoAdModal(ending, timeRemaining) ==
    CASE ending = "countdown" -> TRUE
      [] ending = "skip" -> videoAdDuration - timeRemaining >= skipDelay
      [] OTHER -> FALSE

\* showVideoAd: premium is unlocked and saved only when the modal resolved
\* with a completed ad
showVideoAd(m, t, adCompleted) ==
    IF adCompleted THEN saveStoredData(unlockPremiumFeatures(m, t)) ELSE m

DisplayVideoAdModal ==
    /\ UNCHANGED now
    /\ \E ending \in AdEndings, timeRemaining \in AdTimeRemaining :
          LET adCompleted == displayVideoAdModal(ending, timeRemaining)
          IN  MonetizationStep(premiumUnlocked \/ adCompleted,
                               showVideoAd(mon, now, adCompleted))

\* the page is loaded again: every object of the page is constructed anew,
\* the browser ends the tracks and timers of the page before, and
\* Monetization restores its state from localStorage
ReloadApp ==
    /\ premiumUnlocked' = StillActive(mon, now)
    /\ mon' = loadStoredData(mon, now)
    /\ ap' = NewAudioProcessor
    /\ liveStreams' = {}
    /\ pending' = 0
    /\ det' = NewNoiseDetector
    /\ rafLoops' = 0
    /\ pf' = NewPremiumFeatures
    /\ intervals' = 0
    /\ call' = DetectorCall("load", FALSE)
    /\ history' = historyStore
    /\ UNCHANGED <<now, storage, historyStore, gauge, gaugeFrames>>

\* the clock of the ad gate, ms: time passes up to the next auto-lock timer
\* that is due, so that a due timer runs before time passes it
AdSteps == {930000}
MaxAdClock == 1900000

NextDue(m, t) == {due \in m.lockTimers : due > t}

Earliest(times) == CHOOSE t \in times : \A u \in times : t <= u

AdClockAdvances ==
    /\ \E d \in AdSteps :
          /\ now + d <= MaxAdClock
          /\ \A due \in mon.lockTimers : now < due
          /\ now' = Earliest({now + d} \cup NextDue(mon, now))
    /\ UNCHANGED <<ap, storage, liveStreams, pending, det, history,
                   historyStore, gauge, gaugeFrames, rafLoops, pf, intervals,
                   premiumUnlocked, mon, call>>

AdGateNext ==
    \/ DisplayVideoAdModal
    \/ LockTimerFires
    \/ ReloadApp
    \/ AdClockAdvances
    \/ StartMeasurement
    \/ StartMeasurementResolved
    \/ StopMeasurement

AdGateSpec == Init /\ [][AdGateNext]_vars

\* ---------------------------------------- MeasurementHistory called directly
\* a record as the history reads it: timestamp (0: missing), whether the
\* timestamp is a Date object (a string otherwise), averageDb and maxDb
\* (0: missing)
HistoryRecord(timestamp, isDate, averageDb, maxDb) ==
    [timestamp |-> timestamp, isDate |-> isDate,
     averageDb |-> averageDb, maxDb |-> maxDb]

\* addMeasurement stamps the record with new Date()
Stamped(m, t) == [m EXCEPT !.timestamp = t, !.isDate = TRUE]

\* `${m.timestamp}-${m.averageDb}`: a Date and an ISO string of the same
\* instant print differently
Signature(m) == <<m.timestamp, m.isDate, m.averageDb>>

Signatures(h) == {Signature(h[i]) : i \in 1..Len(h)}

\* importData: m.timestamp && (m.averageDb || m.maxDb)
IsValidMeasurement(m) == m.timestamp # 0 /\ (m.averageDb # 0 \/ m.maxDb # 0)

\* Array.prototype.sort with (a, b) => new Date(b.timestamp) - new
\* Date(a.timestamp): newest first, equal timestamps keep their order
Timestamps(seq) == {seq[i].timestamp : i \in 1..Len(seq)}

Latest(times) == CHOOSE t \in times : \A u \in times : t >= u

RECURSIVE NewestFirst(_, _)
NewestFirst(seq, times) ==
    IF times = {} THEN <<>>
    ELSE LET at(m) == m.timestamp = Latest(times)
         IN  SelectSeq(seq, at) \o NewestFirst(seq, times \ {Latest(times)})

SortNewestFirst(seq) == NewestFirst(seq, Timestamps(seq))

\* importData without the slice to maxRecords
importDataUncapped(h, imported) ==
    LET valid(m) == IsValidMeasurement(m)
        fresh(m) == Signature(m) \notin Signatures(h)
    IN  SortNewestFirst(h \o SelectSeq(SelectSeq(imported, valid), fresh))

\* importData: valid records that are not yet in the history are appended,
\* the list is sorted newest first and cut to maxRecords
importData(h, imported) == Take(importDataUncapped(h, imported), maxRecords)

\* saveToStorage: JSON.stringify writes every timestamp as a string;
\* setItem runs inside try/catch, an exception is logged and not rethrown
saveToStorage(h, stored, fails) ==
    [setItem(stored, [i \in 1..Len(h) |-> [h[i] EXCEPT !.isDate = FALSE]],
             fails) EXCEPT !.threw = FALSE]

\* loadFromStorage: the stored list with every timestamp made a Date
loadFromStorage(stored) ==
    [i \in 1..Len(stored) |-> [stored[i] EXCEPT !.isDate = TRUE]]

clearHistory == <<>>

\* what is added and imported: a session record, an exported list longer
\* than maxRecords, and a short file with a record that has no timestamp,
\* a record that has no level and a record of the exported list
ExportMargin == 1
SessionRecord == HistoryRecord(0, TRUE, 60, 68)
ExportedRecord == HistoryRecord(LoadTime - 1, FALSE, 70, 78)
ExportedList == [i \in 1..(maxRecords + ExportMargin) |-> ExportedRecord]
ShortFile == <<HistoryRecord(0, FALSE, 80, 88),
               HistoryRecord(LoadTime + 1, FALSE, 0, 0),
               ExportedRecord>>
ImportFiles == {ExportedList, ShortFile}

HistoryStep(h, fails, name) ==
    /\ history' = h
    /\ historyStore' = saveToStorage(h, historyStore, fails).stored
    /\ call' = [NoCall EXCEPT
                  !.op = name,
                  !.err = saveToStorage(h, historyStore, fails).threw,
                  !.pre = Len(history) = maxRecords]
    /\ UNCHANGED <<ap, storage, liveStreams, pending, det, rafLoops, pf,
                   intervals, premiumUnlocked, mon, gauge, gaugeFrames>>

AddMeasurement ==
    /\ UNCHANGED now
    /\ HistoryStep(addMeasurement(history, Stamped(SessionRecord, now)),
                   FALSE, "addMeasurement")

ImportData ==
    /\ UNCHANGED now
    /\ \E imported \in ImportFiles :
          HistoryStep(importData(history, imported), FALSE, "importData")

ClearHistory ==
    /\ UNCHANGED now
    /\ HistoryStep(clearHistory, FALSE, "clearHistory")

\* a page load: the constructor of MeasurementHistory loads from storage
LoadFromStorage ==
    /\ history' = loadFromStorage(historyStore)
    /\ call' = [NoCall EXCEPT !.op = "loadFromStorage"]
    /\ UNCHANGED <<now, ap, storage, liveStreams, pending, det, historyStore,
                   gauge, gaugeFrames, rafLoops, pf, intervals,
                   premiumUnlocked, mon>>

HistoryNext ==
    \/ AddMeasurement
    \/ ImportData
    \/ ClearHistory
    \/ LoadFromStorage

HistorySpec == Init /\ [][HistoryNext]_vars

\* ------------------------------------------- saving while storage may fail
\* a call that saves: what it was given, whether localStorage.setItem
\* failed under it (pre) and whether the call threw to its caller (err)
SaveCall(name, arg, fails, threw) ==
    [NoCall EXCEPT !.op = name, !.arg = arg, !.pre = fails, !.err = threw]

\* setCalibrationOffset: the offset is set, then saved
SaveCalibration ==
    /\ \E offset \in ManualOffsets \cup StoredOffsets, fails \in BOOLEAN :
          LET a == setCalibrationOffset(ap, offset)
              r == saveCalibration(a, storage, fails)
          IN  /\ ap' = a
              /\ storage' = r.stored
              /\ call' = SaveCall("setCalibrationOffset", offset, fails,
                                  r.threw)
    /\ UNCHANGED <<now, liveStreams, pending, det, history, historyStore,
                   gauge, gaugeFrames, rafLoops, pf, intervals,
                   premiumUnlocked, mon>>

\* addMeasurement and clearHistory: the list is changed, then saved
SaveToStorage ==
    /\ \E name \in {"addMeasurement", "clearHistory"}, fails \in BOOLEAN :
          LET h == IF name = "addMeasurement"
                   THEN addMeasurement(history, Stamped(SessionRecord, now))
                   ELSE clearHistory
              r == saveToStorage(h, historyStore, fails)
          IN  /\ Len(h) <= MaxHistory
              /\ history' = h
              /\ historyStore' = r.stored
              /\ call' = SaveCall(name, Len(h), fails, r.threw)
    /\ UNCHANGED <<now, ap, storage, liveStreams, pending, det, rafLoops, pf,
                   intervals, premiumUnlocked, mon, gauge, gaugeFrames>>

StorageNext ==
    \/ SaveCalibration
    \/ SaveToStorage
    \/ LoadFromStorage

StorageSpec == Init /\ [][StorageNext]_vars

\* ------------------------------------------------------ Gauge called directly
\* Math.max(minValue, Math.min(maxValue, value))
ClampToRange(value) == Max(minValue, Min(maxValue, value))

\* diff * 0.15, in hundredths, rounded towards zero
AnimationStep(diff) ==
    IF diff >= 0 THEN (diff * 15) \div 100 ELSE 0 - ((0 - diff) * 15) \div 100

\* ids handed out by requestAnimationFrame are never handed out again
MaxFrameIds == 3
FrameIds == 1..MaxFrameIds
requestAnimationFrame(g, requests) ==
    CHOOSE id \in FrameIds : id \notin requests \cup {g.animationFrame}

\* cancelAnimationFrame: a request that has run or was cancelled is ignored
cancelAnimationFrame(requests, id) == requests \ {id}

\* animate, the callback of animateToTarget: a step towards the target and
\* the next frame requested, or the target reached and no frame requested
animate(g, requests) ==
    LET diff == g.targetValue - g.currentValue
        id   == requestAnimationFrame(g, requests)
    IN  IF Abs(diff) > 10
        THEN [gauge |-> [g EXCEPT !.currentValue = @ + AnimationStep(diff),
                                  !.animationFrame = id],
              requests |-> requests \cup {id}]
        ELSE [gauge |-> [g EXCEPT !.currentValue = g.targetValue,
                                  !.isAnimating = FALSE,
                                  !.animationFrame = 0],
              requests |-> requests]

\* animateToTarget that does not cancel the frame it scheduled before
animateToTargetKeepsFrame(g, requests) ==
    animate([g EXCEPT !.isAnimating = TRUE], requests)

\* animateToTarget: the scheduled frame is cancelled, then animate() runs
animateToTarget(g, requests) ==
    animate([g EXCEPT !.isAnimating = TRUE],
            IF g.animationFrame # 0
            THEN cancelAnimationFrame(requests, g.animationFrame)
            ELSE requests)

\* update: a new animation is started when none is running or when the
\* target is more than 5 dB away
update(g, requests, value) ==
    LET g1 == [g EXCEPT !.targetValue = ClampToRange(value)]
    IN  IF ~g1.isAnimating \/ Abs(g1.targetValue - g1.currentValue) > 500
        THEN animateToTarget(g1, requests)
        ELSE [gauge |-> g1, requests |-> requests]

\* setValue: the value is set at once and a scheduled frame is cancelled
setValue(g, requests, value) ==
    LET g1 == [g EXCEPT !.currentValue = ClampToRange(value),
                        !.targetValue = ClampToRange(value)]
    IN  IF g1.animationFrame # 0
        THEN [gauge |-> [g1 EXCEPT !.animationFrame = 0,
                                   !.isAnimating = FALSE],
              requests |-> cancelAnimationFrame(requests, g1.animationFrame)]
        ELSE [gauge |-> g1, requests |-> requests]

\* the levels shown, hundredths of a dB
GaugeValues == {-100, 0, 100, 700}

\* what is remembered of a call on the gauge: the value given, the frame
\* that was scheduled before the call (ret) and whether the call started
\* an animation while one was running (pre)
GaugeStep(r, name, value, restarted) ==
    /\ gauge' = r.gauge
    /\ gaugeFrames' = r.requests
    /\ Cardinality(r.requests) < MaxFrameIds
    /\ call' = [NoCall EXCEPT !.op = name, !.arg = value,
                              !.ret = gauge.animationFrame,
                              !.pre = restarted]
    /\ UNCHANGED <<now, ap, storage, liveStreams, pending, det, history,
                   historyStore, rafLoops, pf, intervals, premiumUnlocked,
                   mon>>

Update ==
    /\ TRUE
    /\ \E value \in GaugeValues :
          GaugeStep(update(gauge, gaugeFrames, value), "update", value,
                    /\ gauge.animationFrame \in gaugeFrames
                    /\ update(gauge, gaugeFrames, value).gauge.animationFrame
                          \notin {0, gauge.animationFrame})

SetValue ==
    /\ TRUE
    /\ \E value \in GaugeValues :
          GaugeStep(setValue(gauge, gaugeFrames, value), "setValue", value,
                    FALSE)

\* the browser runs one requested frame
AnimationFrame ==
    /\ \E id \in gaugeFrames :
          GaugeStep(animate(gauge, gaugeFrames \ {id}), "animate", 0, FALSE)

GaugeNext ==
    \/ Update
    \/ SetValue
    \/ AnimationFrame

GaugeSpec == Init /\ [][GaugeNext]_vars

\* --------------------------------------- the controller without the clock
\* starts, resolutions, rejections, stops and loop callbacks in any order,
\* at one instant
SessionNext ==
    \/ UnlockPremium
    \/ PremiumExpired
    \/ StartMeasurement
    \/ StartMeasurementResolved
    \/ StartMeasurementRejected
    \/ StopMeasurement
    \/ MeasurementLoop

SessionSpec == Init /\ [][SessionNext]_vars

\* ================================================================ claims
\* the session ended in this step
SessionEnds == det.isRunning /\ ~det'.isRunning

\* the duration the tier of the session calls for, in seconds
TierDuration(d) == IF d.isPremiumSession THEN ExtendedDuration ELSE FreeDuration

\* two instants less than the minimum update interval (1000/60 ms) apart
LessThanIntervalApart(t, u) == (t - u) * FramesPerSecond < 1000

\* the uncalibrated reading of a frame
UncalibratedReading(frame) == Clamp(convertRMSToDecibels(calculateRMS(frame)))

\* the frame's level lies inside the clamp range before calibration
Unclamped(frame) ==
    /\ convertRMSToDecibels(calculateRMS(frame)) >= ClampMin
    /\ convertRMSToDecibels(calculateRMS(frame)) <= ClampMax

\* C1: at most one measurement session is live at any time: never two
\* scheduled measurement loops and never two acquired streams with live
\* tracks.
C1_SingleSession == rafLoops <= 1 /\ Cardinality(liveStreams) <= 1

\* C2: once a session has reached Running, summaries are handed over exactly
\* at the end of a session, one per session: a step appends one history
\* record if it ends a Running session and none otherwise.
C2_ExactlyOneSummary ==
    [][det.startTime > 0
         => Len(history') = Len(history) + (IF SessionEnds THEN 1 ELSE 0)]_vars

\* C3: a stop call made while the controller is not running is a no-op: it
\* adds no history record.
C3_StopIdempotent ==
    [][(StopMeasurement /\ ~det.isRunning) => history' = history]_vars

\* C4: once a stop has been processed (explicit, or the loop's duration
\* check) no microphone stream has live tracks and the meter is neither
\* initialized nor measuring and holds no stream.
C4_ReleasedAfterStop ==
    [][(StopMeasurement \/ (MeasurementLoop /\ SessionEnds))
         => /\ liveStreams' = {}
            /\ ~ap'.isInitialized
            /\ ~ap'.isMeasuring
            /\ ap'.stream = NoStream]_vars

\* C5: when microphone acquisition fails the error is surfaced, the
\* controller is not running, the meter is not initialized and holds no
\* stream, and no new acquisition is started.
C5_FailureLeavesIdle ==
    [][StartMeasurementRejected
         => /\ call'.err
            /\ ~det'.isRunning
            /\ ~ap'.isInitialized
            /\ ap'.stream = NoStream
            /\ pending' = pending - 1]_vars

\* C6: an explicit stop ends the session at any moment, and a pass of the
\* measurement loop over a Running session ends it exactly when the elapsed
\* time has reached the duration of its tier (30 s free, 300 s extended).
C6_EndsAtTierDuration ==
    [][/\ StopMeasurement => ~det'.isRunning
       /\ (MeasurementLoop /\ det.isRunning)
            => (~det'.isRunning <=>
                  now - det.startTime >= TierDuration(det) * 1000)]_vars

\* C7 as claimed: of two getCurrentDecibels calls made while measuring, less
\* than the update interval apart and with no other call between them, the
\* second returns the value of the first and does not sample the analyser.
C7_TwoCallsIdentical ==
    [][(/\ call.op = "getCurrentDecibels" /\ call.pre
        /\ ap.isInitialized /\ ap.isMeasuring
        /\ now >= call.at /\ LessThanIntervalApart(now, call.at)
        /\ GetCurrentDecibels)
         => (call'.ret = call.ret /\ ~call'.sampled)]_vars

\* C7 amended: the same, when the first of the two calls recomputed the
\* level (the gate runs from the last recomputation, not from the last call).
C7_CachedAfterRecompute ==
    [][(/\ call.op = "getCurrentDecibels" /\ call.pre
        /\ call.sampled /\ ~call.err
        /\ ap.isInitialized /\ ap.isMeasuring
        /\ now >= call.at /\ LessThanIntervalApart(now, call.at)
        /\ GetCurrentDecibels)
         => (call'.ret = call.ret /\ ~call'.sampled)]_vars

\* a value served from the cache, some milliseconds after it was computed
C7_Witness ==
    /\ call.op = "getCurrentDecibels" /\ call.pre /\ ~call.sampled
    /\ ap.isInitialized /\ ap.isMeasuring
    /\ call.at > ap.lastUpdateTime
    /\ LessThanIntervalApart(call.at, ap.lastUpdateTime)
    /\ call.ret = ap.currentDecibels
    /\ call.ret >= ClampMin

\* C8: every value getCurrentDecibels returns for a frame while the meter is
\* measuring lies in the clamp range [20, 140].
C8_InClampRange ==
    (call.op = "getCurrentDecibels" /\ call.pre /\ ~call.err)
        => (call.ret >= ClampMin /\ call.ret <= ClampMax)

\* C9: after a successful calibrate(y) that read the frame's uncalibrated
\* level, the next reading recomputed from the same frame, with no call in
\* between, equals y (for a frame whose level lies inside the clamp range).
C9_NextReadingIsReference ==
    [][(/\ call.op = "calibrate" /\ ~call.err
        /\ Unclamped(call.sig)
        /\ call.ret = UncalibratedReading(call.sig)
        /\ call'.sig = call.sig /\ call'.sampled /\ ~call'.err
        /\ GetCurrentDecibels)
         => call'.ret = call.arg]_vars

\* C10: after a successful calibrate(y) that read x, the uncalibrated level
\* of the current frame, the stored offset, in memory and persisted, is
\* y - x, whatever offset was in force before.
C10_StoredOffset ==
    (/\ call.op = "calibrate" /\ ~call.err
     /\ Unclamped(call.sig)
     /\ call.ret = UncalibratedReading(call.sig))
        => /\ ap.calibrationOffset =
                calculateCalibrationOffset(call.ret, call.arg)
           /\ storage = [has |-> TRUE, val |-> ap.calibrationOffset]

\* the reading of a frame under an offset: the offset applied once
CalibratedReading(frame, offset) ==
    Clamp(AddOffset(convertRMSToDecibels(calculateRMS(frame)), offset))

\* the last call computed its value from the frame it was given
ComputedFromFrame ==
    /\ call.op \in {"getCurrentDecibels", "calibrate"}
    /\ call.pre /\ call.sampled /\ ~call.err
    /\ call.op = "calibrate" => call.ret = UncalibratedReading(call.sig)

\* C11: a reading returned after a call that computed its value from a frame
\* holds the offset in force exactly once: it is the level of the frame it
\* was computed from (the new frame, or the cached one) plus the offset.
C11_OffsetAppliedOnce ==
    [][(ComputedFromFrame /\ ~call'.err /\ GetCurrentDecibels)
         => call'.ret =
              CalibratedReading(IF call'.sampled THEN call'.sig ELSE call.sig,
                                ap.calibrationOffset)]_vars

C13_CalibrateNeedsMeasurement ==
    [][(~(ap.isInitialized /\ ap.isMeasuring) /\ Calibrate)
         => (call'.err /\ ap' = ap /\ storage' = storage)]_vars

\* a refused calibrate on a meter that holds a stored, non-zero offset
C13_Witness ==
    /\ call.op = "calibrate" /\ call.err /\ ~call.pre
    /\ ap.isInitialized /\ ~ap.isMeasuring
    /\ ap.calibrationOffset # 0
    /\ storage = [has |-> TRUE, val |-> ap.calibrationOffset]

\* the meter holds nothing: not measuring, not initialized, no stream, no
\* analyser, no audio context
Released(a) ==
    /\ ~a.isMeasuring /\ ~a.isActive /\ ~a.isInitialized
    /\ a.stream = NoStream /\ ~a.analyser /\ ~a.audioContext

C17_RecomputesAfterInterval ==
    [][(/\ ap.isInitialized /\ ap.isMeasuring
        /\ ~LessThanIntervalApart(now, ap.lastUpdateTime)
        /\ GetCurrentDecibels /\ ~call'.err)
         => /\ call'.sampled
            /\ call'.ret = CalibratedReading(call'.sig, ap.calibrationOffset)
            /\ ap'.currentDecibels = call'.ret
            /\ ap'.lastUpdateTime = now]_vars

\* a level recomputed some milliseconds into the measurement, replacing the
\* floor value in the cache
C17_Witness ==
    /\ call.op = "getCurrentDecibels" /\ call.sampled /\ ~call.err
    /\ call.at > LoadTime
    /\ ap.lastUpdateTime = call.at
    /\ ap.currentDecibels = call.ret
    /\ call.ret > ClampMin

\* C18: the readings stored for a session are in non-decreasing timestamp
\* order: each stored reading's timestamp is at least that of the reading
\* stored before it.
C18_TimestampsNonDecreasing ==
    \A i \in 1..(Len(pf.extendedMeasurements) - 1) :
        pf.extendedMeasurements[i].timestamp
            <= pf.extendedMeasurements[i + 1].timestamp

\* three readings stored over a span of time, the first when the session
\* was already under way
C18_Witness ==
    /\ Len(pf.extendedMeasurements) >= 3
    /\ pf.extendedMeasurements[1].timestamp > 0
    /\ pf.extendedMeasurements[1].timestamp
         < pf.extendedMeasurements[3].timestamp

\* C19: when the total time across the stored readings is zero, the
\* time-weighted value handed back by stopExtendedMeasurement is neither 0
\* nor NaN (it is marked as insufficient data).
C19_ZeroTimeIsNotAValue ==
    (/\ call.op = "stopExtendedMeasurement"
     /\ ~call.err
     /\ call.arg = 0
     /\ \A i \in 1..Len(pf.extendedMeasurements) :
            IsFinite(pf.extendedMeasurements[i].db))
        => (call.ret # 0 /\ call.ret # NotANumber)

\* C20: no reading that is not finite enters the analysis, and the count
\* the analysis reports is the count of the finite readings.
C20_NonFiniteExcluded ==
    (call.op = "stopExtendedMeasurement" /\ ~call.err)
        => /\ \A i \in 1..Len(AnalysedLevels(pf)) :
                 IsFinite(AnalysedLevels(pf)[i])
           /\ measurementCount(pf) =
                 Cardinality({i \in 1..Len(pf.extendedMeasurements) :
                                IsFinite(pf.extendedMeasurements[i].db)})

\* the zones whose range [minDb, maxDb) holds the level
ZonesHolding(v) ==
    {i \in 1..Len(classifications) :
        classifications[i].minDb <= v /\ v < classifications[i].maxDb}

TopBoundary == classifications[Len(classifications)].maxDb

C22_NegativeIsQuiet ==
    (call.op = "classify" /\ call.arg < 0) => call.ret.range = "quiet"

\* C23: every compliance result uses the same thresholds: OSHA compliant
\* exactly when the time-weighted average is at most 90, NIOSH compliant
\* exactly when it is at most 85, WHO compliant exactly when the plain
\* average level is at most 55.
C23_SameThresholds ==
    /\ call.op = "generatePremiumHealthAnalysis"
          => /\ call.ret.oshaCompliant <=> call.arg.timeWeightedAverage <= 90
             /\ call.ret.nioshCompliant <=> call.arg.timeWeightedAverage <= 85
    /\ (call.op = "generateHealthDashboard"
            /\ call.ret.overallRisk # "insufficient-data")
          => /\ call.ret.compliance.osha
                   <=> TwaAtMost(call.ret.timeWeightedAverage, 90)
             /\ call.ret.compliance.niosh
                   <=> TwaAtMost(call.ret.timeWeightedAverage, 85)
             /\ call.ret.compliance.who
                   <=> SumDb(call.arg, Len(call.arg)) <= 55 * Len(call.arg)

\* C24: the safe exposure time (thousandths of an hour) meets the reference
\* points: 8 h up to 85 dB, 4 h at 90, 2 h at 95, 1 h at 97, 15 min at 100,
\* about 1 min at 105, nothing above that.
C24_ReferencePoints ==
    call.op = "calculateSafeExposureTime"
        => /\ call.arg <= 85 => call.ret = 8000
           /\ call.arg = 90 => call.ret = 4000
           /\ call.arg = 95 => call.ret = 2000
           /\ call.arg = 97 => call.ret = 1000
           /\ call.arg = 100 => call.ret = 250
           /\ call.arg = 105 => call.ret \in 16..17
           /\ call.arg > 105 => call.ret = 0

\* C25: for one exposure duration the dose does not fall as the
\* time-weighted average rises: a <= b gives dose(a) <= dose(b).
C25_DoseNonDecreasing ==
    (call.op = "calculateExposureDose" /\ Len(call.ret) = 2
        /\ call.arg.a <= call.arg.b)
        => call.ret[1] <= call.ret[2]

C25_Witness ==
    /\ call.op = "calculateExposureDose"
    /\ Len(call.ret) = 2
    /\ call.arg.a = 100
    /\ call.arg.b = 106
    /\ call.arg.durationSeconds = 60
    /\ call.ret[1] < call.ret[2]

\* C26: a trend over fewer readings than two windows of five each is
\* reported as insufficient data, never as increasing, decreasing or stable.
C26_FewSamplesInsufficient ==
    /\ (call.op = "calculateTrend" /\ Len(call.arg) < 2 * 5)
          => call.ret = "insufficient-data"
    /\ (call.op = "analyzeTrends" /\ Len(call.arg) < 2 * 5)
          => call.ret.trend = "insufficient-data"

\* the duration-weighted sum of the linear energies and the summed duration
RECURSIVE WeightedEnergy(_, _)
WeightedEnergy(m, n) ==
    IF n = 0 THEN <<0, 0>>
    ELSE LET rest == WeightedEnergy(m, n - 1)
         IN  <<rest[1] + Energy(m[n].db) * m[n].duration,
               rest[2] + m[n].duration>>

LevelsOf(m) == {m[i].db : i \in 1..Len(m)}
Loudest(m) == CHOOSE v \in LevelsOf(m) : \A w \in LevelsOf(m) : w <= v
Quietest(m) == CHOOSE v \in LevelsOf(m) : \A w \in LevelsOf(m) : v <= w

\* the duration-weighted arithmetic mean of the levels is at most level
MeanDbAtMost(m, level) ==
    LET RECURSIVE S(_)
        S(n) == IF n = 0 THEN <<0, 0>>
                ELSE <<S(n - 1)[1]
                          + m[n].db * Max(1, m[n].duration),
                       S(n - 1)[2] + Max(1, m[n].duration)>>
    IN  S(Len(m))[1] <= level * S(Len(m))[2]

\* the 3-reading session 60 dB, 90 dB, 70 dB of 10 s each
ExampleSession ==
    <<[db |-> 60, duration |-> 10], [db |-> 90, duration |-> 10],
      [db |-> 70, duration |-> 10]>>

\* C27: the time-weighted average is the duration-weighted average of the
\* linear energies: it lies between the quietest and the loudest level,
\* strictly when the levels differ, and the session 60/90/70 dB of 10 s
\* each gives a value strictly between 60 and 90 and above the arithmetic
\* mean of the levels (73.3 dB).
C27_EnergyAverage ==
    /\ (call.op = "calculateTimeWeightedExposure" /\ call.ret.totalTime > 0)
          => LET timed == SelectSeq(SubSeq(call.arg, 1, Len(call.arg) - 1),
                                    LAMBDA r : r.duration > 0)
             IN  /\ Quietest(timed) <= call.ret.value
                 /\ call.ret.value <= Loudest(timed)
                 /\ MeanDbAtMost(timed, call.ret.value)
                 /\ call.arg = ExampleSession
                       => /\ 60 < call.ret.value
                          /\ call.ret.value < 90
                          /\ call.ret.value > 75
    /\ (call.op = "calculateTimeWeightedAverage" /\ Len(call.arg) > 0)
        => /\ ~call.ret.isZero
           /\ (\A i \in 1..Len(call.arg) : call.arg[i].duration > 0)
                 => <<call.ret.energy, call.ret.time>>
                       = WeightedEnergy(call.arg, Len(call.arg))
           /\ TwaAtMost(call.ret, Loudest(call.arg))
           /\ call.ret.energy >= Energy(Quietest(call.arg)) * call.ret.time
           /\ Cardinality(LevelsOf(call.arg)) > 1
                 => /\ ~TwaAtMost(call.ret, Quietest(call.arg))
                    /\ call.ret.energy
                          < Energy(Loudest(call.arg)) * call.ret.time
           /\ \A level \in Quietest(call.arg)..Loudest(call.arg) :
                 TwaAtMost(call.ret, level) => MeanDbAtMost(call.arg, level)
           /\ call.arg = ExampleSession
                 => /\ ~TwaAtMost(call.ret, 60)
                    /\ ~TwaAtMost(call.ret, 85)
                    /\ TwaAtMost(call.ret, 86)

C27_Witness ==
    /\ call.op = "calculateTimeWeightedAverage"
    /\ call.arg = ExampleSession
    /\ ~TwaAtMost(call.ret, 85)
    /\ TwaAtMost(call.ret, 86)

\* the order statistics: the k-th is the least value with at least k of the
\* values at or below it
AtOrBelow(values, v) == Cardinality({i \in 1..Len(values) : values[i] <= v})
OrderStatistics(values) ==
    LET present == {values[i] : i \in 1..Len(values)}
    IN  [k \in 1..Len(values) |->
            CHOOSE v \in present :
                /\ AtOrBelow(values, v) >= k
                /\ \A w \in present : AtOrBelow(values, w) >= k => v <= w]

PercentileCalls == {"calculatePercentile", "historyCalculatePercentile"}

\* C28: a percentile (in hundredths) lies between the order statistics on
\* either side of index p/100*(n-1), at the distance the fraction of the
\* index gives (to a tenth); for [10,20,30,40,50] the 50th, 0th and 100th
\* percentiles are 30, 10 and 50, and the percentiles of a single value are
\* that value.
C28_LinearInterpolation ==
    call.op \in PercentileCalls
        => LET values == call.arg.values
               p == call.arg.percentile
               s == OrderStatistics(values)
               n == Len(values)
               below == s[((p * (n - 1)) \div 100) + 1]
               above == s[((p * (n - 1) + 99) \div 100) + 1]
               exact == below * 100
                           + (above - below) * ((p * (n - 1)) % 100)
           IN  /\ Abs(call.ret - exact) <= 5
               /\ call.op = "calculatePercentile" => call.ret = exact
               /\ n = 1 => call.ret = values[1] * 100
               /\ p = 0 => call.ret = s[1] * 100
               /\ p = 100 => call.ret = s[n] * 100
               /\ (values = <<10, 20, 30, 40, 50>> /\ p = 50)
                     => call.ret = 3000

C28_Witness ==
    /\ call.op \in PercentileCalls
    /\ call.arg.values = <<50, 10, 40, 20, 30>>
    /\ call.arg.percentile = 10
    /\ call.ret = 1400

\* initialize failed twice in a row, for two different reasons
RejectedForDifferentReasons ==
    /\ call.op = "initializeRejected"
    /\ call'.op = "initializeRejected"
    /\ call.cause.name # call'.cause.name

\* C29: a permission denial and an unavailable device reach the caller of
\* initialize as errors of two different kinds.
C29_DistinctErrorKinds ==
    [][RejectedForDifferentReasons
         => call.thrown.name # call'.thrown.name]_vars

\* the time of the most recent unlock (0: never unlocked): showVideoAd
\* saves it on every unlock
LastUnlock == mon.stored

\* C30: premium is unlocked during the 30 minutes after the most recent
\* unlock and locked after them, also when the state was restored from
\* storage.
C30_UnlockedForSessionTime ==
    /\ LastUnlock = 0 => ~premiumUnlocked
    /\ LastUnlock # 0
          => /\ now - LastUnlock < premiumSessionTime * 1000
                   => premiumUnlocked
             /\ now - LastUnlock > premiumSessionTime * 1000
                   => ~premiumUnlocked

\* the unlock of the last completed ad is still in force: no more than
\* premiumSessionTime has passed since it (the auto-lock timer is due at
\* exactly premiumSessionTime)
UnlockInForce ==
    LastUnlock # 0 /\ now - LastUnlock <= premiumSessionTime * 1000

\* C31: a session is started with the extended 300 s duration only when a
\* video ad was completed and the unlock it gave is still in force at the
\* moment of the start.
C31_ExtendedOnlyWhileUnlocked ==
    [][(det'.duration = ExtendedDuration /\ ~UnlockInForce)
          => ~StartMeasurement]_vars

\* C32: the history never holds more than 50 records, whatever sequence of
\* add, import, load from storage and clear has run; what was saved is
\* within the cap as well.
C32_AtMostMaxRecords ==
    Len(history) <= maxRecords /\ Len(historyStore) <= maxRecords

\* an add and an import have run on a history that was full
C32_Witness ==
    /\ call.op \in {"addMeasurement", "importData"}
    /\ call.pre
    /\ Len(history) = maxRecords

\* a save ran while localStorage.setItem was failing
SavedWhileStorageFails ==
    call'.pre /\ call'.op \in {"setCalibrationOffset", "addMeasurement",
                               "clearHistory"}

\* C33: when storage is full or unavailable, saving the calibration offset
\* and saving the history do not throw: what is stored stays as it was and
\* the operation that saved completes (the offset is set, the record is in
\* the list, the list is cleared).
C33_SaveNeverThrows ==
    [][SavedWhileStorageFails
         => /\ ~call'.err
            /\ storage' = storage
            /\ historyStore' = historyStore
            /\ call'.op = "setCalibrationOffset"
                  => ap'.calibrationOffset = call'.arg
            /\ call'.op = "addMeasurement"
                  => /\ Len(history') = Len(history) + 1
                     /\ Head(history') = Stamped(SessionRecord, now)
            /\ call'.op = "clearHistory" => history' = <<>>]_vars

\* an offset was set and a session added while storage failed: neither is
\* in storage
C33_Witness ==
    /\ call.pre
    /\ call.op = "addMeasurement"
    /\ Len(history) > Len(historyStore)
    /\ ap.calibrationOffset # 0
    /\ ~storage.has

\* C34: the gauge has at most one animation-frame request pending; an
\* update that starts a new animation has cancelled the frame scheduled
\* before it, and after setValue no frame is pending and no animation runs.
C34_OneFramePending ==
    /\ Cardinality(gaugeFrames) <= 1
    /\ gaugeFrames \subseteq {gauge.animationFrame}
    /\ (call.op = "update" /\ call.pre) => call.ret \notin gaugeFrames
    /\ call.op = "setValue"
          => gaugeFrames = {} /\ ~gauge.isAnimating

\* an update has started a new animation while a frame of the animation
\* before it was pending
C34_Witness ==
    /\ call.op = "update"
    /\ call.pre
    /\ call.ret # 0
    /\ Cardinality(gaugeFrames) = 1

\* a second startMeasurement was made while the first awaited the
\* microphone; the first has resolved into a running session with one loop
\* and one stream, and the second is still waiting
SecondStartWaiting ==
    /\ pending = 1
    /\ det.isRunning
    /\ ap.isInitialized
    /\ rafLoops = 1
    /\ Cardinality(liveStreams) = 1

\* C35: when the acquisition of the second of two overlapping starts
\* resolves, there is still one measurement loop, one held stream and at
\* most one sampling timer.
C35_OverlappingStartsOneSession ==
    [][(SecondStartWaiting /\ StartMeasurementResolved)
          => /\ rafLoops' <= 1
             /\ Cardinality(liveStreams') <= 1
             /\ intervals' <= 1]_vars

\* stopMeasurement was the last call and one startMeasurement, made before
\* it, still awaits the microphone
StoppedWhileAwaiting ==
    /\ call.op = "stopMeasurement"
    /\ pending = 1
    /\ ~det.isRunning

ControllerIdle == ~det.isRunning /\ pending = 0

\* C37: while the controller is Idle no premium sampling timer is live:
\* a failed acquisition and every stop leave the sampler cleared.
C37_NoSamplerWhileIdle ==
    ControllerIdle => intervals = 0 /\ ~pf.premiumTimer

\* C38: whatever sequence of start, stop and deactivate calls is made on
\* PremiumFeatures, at most one sampling interval timer is live, and it is
\* the one held in premiumTimer.
C38_OneSamplingTimer ==
    /\ intervals <= 1
    /\ intervals = 1 => pf.premiumTimer

\* the meter was torn down after a reading had been computed and was then
\* started again; no reading has been computed since: currentDecibels is
\* still the 0 that cleanup left
RestartedAfterTeardown ==
    /\ ap.isInitialized
    /\ ap.isMeasuring
    /\ ap.lastUpdateTime > 0
    /\ ap.currentDecibels = 0

\* C39: the first reading served after a teardown and restart is computed
\* afresh from a frame of the new stream; it is not the cached value of
\* before the teardown and not the placeholder.
C39_FirstReadingIsFresh ==
    [][(RestartedAfterTeardown /\ GetCurrentDecibels)
          => /\ call'.sampled
             /\ ~call'.err => call'.ret >= ClampMin]_vars

\* the levels a session can end with: the readings of the meter are
\* clamped to ClampMin..ClampMax
FinalReading(m) == m.averageDb >= ClampMin /\ m.averageDb <= ClampMax

\* C40: every record saved for a session whose final reading is within
\* 20..140 dB has minDb <= averageDb <= maxDb.
C40_MinAverageMaxOrdered ==
    \A i \in 1..Len(history) :
        FinalReading(history[i])
           => /\ history[i].minDb <= history[i].averageDb
              /\ history[i].averageDb <= history[i].maxDb

====
